---- MODULE Spec2Model ----
(***************************************************************************)
(* Model of zebu's tree arena (src/zebu.c): the size-classed blob          *)
(* allocator, the AA-tree string dictionary built on it, the node          *)
(* constructors and the shallow / recursive copy.                          *)
(*                                                                         *)
(* Memory is modelled by objects: a blob is a heap block obtained from     *)
(* calloc, identified by the order in which calloc returned it (0 is the   *)
(* null pointer) and placed at address id * BlobStride.  A pointer is an    *)
(* integer address; the payload of a blob starts SizeofBlob bytes after    *)
(* the blob's address.  Sizes are those of an LP64 build.                  *)
(***************************************************************************)
EXTENDS Integers, Sequences, FiniteSets, TLC

VARIABLES
    status,   \* "live" after zz_tree_init, "destroyed" after zz_tree_destroy,
              \* "crashed" when the process was killed by a fault
    oom,      \* environment: TRUE when calloc has no memory left to give
    tree,     \* struct zz_tree: [node_size, strings]
    table,    \* the array tree->blobs: [ptr, head, freed]; ptr is NULL when
              \* calloc gave zz_tree_init no array
    blob,     \* the blobs calloc returned: Seq of [next, used, size, freed]
    dict,     \* struct zz_dict objects, by address
    node,     \* struct zz_node objects, by address
    allocs,   \* what zz_alloc has returned so far: a bag of [ptr, nbytes],
              \* i.e. how many times each was returned
    rvals,    \* what zz_alloc_string has returned so far: set of [text, ref]
    inits,    \* number of zz_*_init calls the client of the copy
              \* specification has made on existing nodes
    ret       \* the last call: its name, arguments and return value

vars == <<status, oom, tree, table, blob, dict, node, allocs, rvals, inits, ret>>

(***************************************************************************)
(* Bounds of the model.                                                    *)
(***************************************************************************)
MaxAllocs == 4      \* zz_alloc calls in the allocator specification
MaxDict == 7        \* distinct strings in the dictionary
MaxMade == 3        \* nodes made by the constructors in the copy specification
MaxNodes == 6       \* nodes in all in the copy specification
MaxInits == 1       \* zz_*_init calls on existing nodes in the copy specification

(***************************************************************************)
(* Sizes and constants of the program.                                     *)
(***************************************************************************)
ZZ_BLOB_SIZE == 1024
SizeofBlob == 16
SizeofDict == 24
SizeofNode == 56
NumChains == 9

ZZ_NULL == "ZZ_NULL"
ZZ_INT == "ZZ_INT"
ZZ_UINT == "ZZ_UINT"
ZZ_DOUBLE == "ZZ_DOUBLE"
ZZ_STRING == "ZZ_STRING"
ZZ_POINTER == "ZZ_POINTER"

NULL == 0

\* The address of the array tree->blobs when calloc gave one.
TableAddr == 1

\* Where calloc places its blocks: block number k at address k * BlobStride.
BlobStride == 4096
BlobAddr(b) == b * BlobStride
\* (char *)(blob + 1): the first byte of a blob's payload
Payload(b) == BlobAddr(b) + SizeofBlob
\* The block an address lies in (0: none, the null page).
BlobOf(p) == p \div BlobStride

\* The state the operations work on, as one record.
World == [status |-> status, oom |-> oom, tree |-> tree, table |-> table,
          blob |-> blob, dict |-> dict, node |-> node, allocs |-> allocs,
          rvals |-> rvals]

\* Extend or overwrite a function at one point.
Put(f, k, v) == [x \in DOMAIN f \cup {k} |-> IF x = k THEN v ELSE f[x]]

\* The bag B with one more copy of e.
AddToBag(B, e) == IF e \in DOMAIN B THEN [B EXCEPT ![e] = @ + 1] ELSE Put(B, e, 1)

\* The number of elements of the bag B, copies counted.
RECURSIVE BagSize(_)
BagSize(B) ==
    IF DOMAIN B = {} THEN 0
    ELSE LET e == CHOOSE x \in DOMAIN B : TRUE
         IN B[e] + BagSize([x \in DOMAIN B \ {e} |-> B[x]])

\* F applied to the value of v, with v evaluated once.
Let(v, F(_)) == CHOOSE y \in {F(x) : x \in {v}} : TRUE

(***************************************************************************)
(* The blob allocator.                                                     *)
(***************************************************************************)

\* calloc(1, sizeof(struct zz_blob) + size): a zeroed block, or NULL (0) when
\* no memory is left.
calloc(w, size) ==
    IF w.oom
    THEN [w |-> w, p |-> 0]
    ELSE [w |-> [w EXCEPT !.blob = Append(@, [next |-> 0, used |-> 0,
                                              size |-> size, freed |-> 0])],
          p |-> Len(w.blob) + 1]

\* A store or load through a null pointer (a null struct zz_blob *, or the
\* null array tree->blobs) is undefined.  The world is marked "fault"; the
\* results computed after it are those of a build where address 0 is
\* readable zero memory and stores to it are lost.
BlobUsed(w, b) == IF b = 0 THEN 0 ELSE w.blob[b].used
SetBlob(w, b, fld, v) ==
    IF b = 0
    THEN [w EXCEPT !.status = "fault"]
    ELSE [w EXCEPT !.blob[b][fld] = v]

\* blobs[i], and the world after the load
HeadOf(w, i) == IF w.table.ptr = NULL THEN 0 ELSE w.table.head[i]
LoadHead(w) == IF w.table.ptr = NULL THEN [w EXCEPT !.status = "fault"] ELSE w
\* blobs[i] = p
SetHead(w, i, p) ==
    IF w.table.ptr = NULL
    THEN [w EXCEPT !.status = "fault"]
    ELSE [w EXCEPT !.table.head[i] = p]

\* zz_alloc_in_blobs(&blobs[i], nbytes)
zz_alloc_in_blobs_uncapped(w0, i, nbytes) ==
    Let(LoadHead(w0), LAMBDA w :
    LET head == HeadOf(w, i)
        fresh == head = 0 \/ w.blob[head].used > ZZ_BLOB_SIZE
    IN Let(IF fresh
           THEN Let(calloc(w, ZZ_BLOB_SIZE), LAMBDA c :
                SetHead(SetBlob(c.w, c.p, "next", head), i, c.p))
           ELSE w, LAMBDA w1 :
       LET b == HeadOf(w1, i)
       IN [w |-> SetBlob(w1, b, "used", BlobUsed(w1, b) + nbytes),
           ptr |-> Payload(b) + BlobUsed(w1, b)]))

zz_alloc_in_blobs(w0, i, nbytes) ==
    Let(LoadHead(w0), LAMBDA w :
    LET head == HeadOf(w, i)
        fresh == head = 0 \/ w.blob[head].used + nbytes > ZZ_BLOB_SIZE
    IN Let(IF fresh
           THEN Let(calloc(w, ZZ_BLOB_SIZE), LAMBDA c :
                SetHead(SetBlob(c.w, c.p, "next", head), i, c.p))
           ELSE w, LAMBDA w1 :
       LET b == HeadOf(w1, i)
       IN [w |-> SetBlob(w1, b, "used", BlobUsed(w1, b) + nbytes),
           ptr |-> Payload(b) + BlobUsed(w1, b)]))

\* The overflow path of zz_alloc: a blob of its own for the request.
zz_alloc_overflow(w, nbytes) ==
    Let(calloc(w, nbytes), LAMBDA c :
    Let(SetBlob(LoadHead(c.w), c.p, "next", HeadOf(c.w, 8)), LAMBDA w1 :
    Let(SetBlob(w1, c.p, "used", nbytes), LAMBDA w2 :
        [w |-> SetHead(w2, 8, c.p), ptr |-> Payload(c.p)])))

\* The result r of zz_alloc(tree, nbytes), with the pointer returned
\* recorded in allocs.
Returned(r, nbytes) ==
    Let(r, LAMBDA x :
        [w |-> [x.w EXCEPT !.allocs = AddToBag(@, [ptr |-> x.ptr, nbytes |-> nbytes])],
         ptr |-> x.ptr])

\* zz_alloc with the boundaries of the classes taken as exclusive.
zz_alloc_exclusive(w, nbytes) ==
    Returned(IF nbytes < 8 THEN zz_alloc_in_blobs(w, 0, 8)
             ELSE IF nbytes < 16 THEN zz_alloc_in_blobs(w, 1, 16)
             ELSE IF nbytes < 32 THEN zz_alloc_in_blobs(w, 2, 32)
             ELSE IF nbytes < 64 THEN zz_alloc_in_blobs(w, 3, 64)
             ELSE IF nbytes < 128 THEN zz_alloc_in_blobs(w, 4, 128)
             ELSE IF nbytes < 256 THEN zz_alloc_in_blobs(w, 5, 256)
             ELSE IF nbytes < 512 THEN zz_alloc_in_blobs(w, 6, 512)
             ELSE IF nbytes < 1024 THEN zz_alloc_in_blobs(w, 7, 1024)
             ELSE zz_alloc_overflow(w, nbytes), nbytes)

\* zz_alloc with the 128-byte class advanced by 64 bytes only.
zz_alloc_short(w, nbytes) ==
    Returned(IF nbytes <= 8 THEN zz_alloc_in_blobs(w, 0, 8)
             ELSE IF nbytes <= 16 THEN zz_alloc_in_blobs(w, 1, 16)
             ELSE IF nbytes <= 32 THEN zz_alloc_in_blobs(w, 2, 32)
             ELSE IF nbytes <= 64 THEN zz_alloc_in_blobs(w, 3, 64)
             ELSE IF nbytes <= 128 THEN zz_alloc_in_blobs(w, 4, 64)
             ELSE IF nbytes <= 256 THEN zz_alloc_in_blobs(w, 5, 256)
             ELSE IF nbytes <= 512 THEN zz_alloc_in_blobs(w, 6, 512)
             ELSE IF nbytes <= 1024 THEN zz_alloc_in_blobs(w, 7, 1024)
             ELSE zz_alloc_overflow(w, nbytes), nbytes)

\* zz_alloc(tree, nbytes)
zz_alloc(w, nbytes) ==
    Returned(IF nbytes <= 8 THEN zz_alloc_in_blobs(w, 0, 8)
             ELSE IF nbytes <= 16 THEN zz_alloc_in_blobs(w, 1, 16)
             ELSE IF nbytes <= 32 THEN zz_alloc_in_blobs(w, 2, 32)
             ELSE IF nbytes <= 64 THEN zz_alloc_in_blobs(w, 3, 64)
             ELSE IF nbytes <= 128 THEN zz_alloc_in_blobs(w, 4, 128)
             ELSE IF nbytes <= 256 THEN zz_alloc_in_blobs(w, 5, 256)
             ELSE IF nbytes <= 512 THEN zz_alloc_in_blobs(w, 6, 512)
             ELSE IF nbytes <= 1024 THEN zz_alloc_in_blobs(w, 7, 1024)
             ELSE zz_alloc_overflow(w, nbytes), nbytes)

(***************************************************************************)
(* zz_tree_destroy                                                         *)
(***************************************************************************)

\* free(b)
free(w, b) == [w EXCEPT !.blob[b].freed = @ + 1]

\* the while loop of zz_tree_destroy over one chain
RECURSIVE FreeChain(_, _)
FreeChain(w, b) ==
    IF b = 0 THEN w
    ELSE Let(w.blob[b].next, LAMBDA next :
         Let(free(w, b), LAMBDA w1 : FreeChain(w1, next)))

\* the for loop of zz_tree_destroy: chains i .. n-1
RECURSIVE FreeChains(_, _, _)
FreeChains(w, i, n) ==
    IF i < n
    THEN Let(FreeChain(LoadHead(w), HeadOf(w, i)), LAMBDA w1 :
             FreeChains(w1, i + 1, n))
    ELSE w

\* free(tree->blobs); free(NULL) does nothing.  The tree is "destroyed" when
\* zz_tree_destroy returns without having gone through a null pointer.
FreeTable(w) ==
    [w EXCEPT !.table.freed = IF w.table.ptr = NULL THEN @ ELSE @ + 1,
              !.status = IF w.status = "fault" THEN "fault" ELSE "destroyed"]

zz_tree_destroy_fixed_only(w) == FreeTable(FreeChains(w, 0, NumChains - 1))

zz_tree_destroy(w) == FreeTable(FreeChains(w, 0, NumChains))

(***************************************************************************)
(* The string dictionary.  A string is the sequence of its bytes, without  *)
(* the terminating 0.                                                      *)
(***************************************************************************)
strlen(s) == Len(s)

\* The byte at index i of the nul-terminated string s (from 1).
Byte(s, i) == IF i <= Len(s) THEN s[i] ELSE 0

\* strcmp(a, b) from byte i on: the difference of the first bytes that
\* differ, 0 when both strings end first.
RECURSIVE strcmp_at(_, _, _)
strcmp_at(a, b, i) ==
    IF Byte(a, i) # Byte(b, i) THEN Byte(a, i) - Byte(b, i)
    ELSE IF Byte(a, i) = 0 THEN 0
    ELSE strcmp_at(a, b, i + 1)

\* A comparison that looks at the first byte only.
strcmp_first_byte(a, b) == Byte(a, 1) - Byte(b, 1)

strcmp(a, b) == strcmp_at(a, b, 1)

\* t->data, the address of the text of dictionary node t
DataOf(t) == t + SizeofDict

\* A skew that forgets to hand l's right subtree over to t.
zz_dict_skew_drop(w, t) ==
    IF t = NULL THEN [w |-> w, t |-> NULL]
    ELSE IF w.dict[t].left = NULL THEN [w |-> w, t |-> t]
    ELSE IF w.dict[w.dict[t].left].level = w.dict[t].level
    THEN LET l == w.dict[t].left
         IN [w |-> [w EXCEPT !.dict[t].left = NULL, !.dict[l].right = t],
             t |-> l]
    ELSE [w |-> w, t |-> t]

zz_dict_skew(w, t) ==
    IF t = NULL THEN [w |-> w, t |-> NULL]
    ELSE IF w.dict[t].left = NULL THEN [w |-> w, t |-> t]
    ELSE IF w.dict[w.dict[t].left].level = w.dict[t].level
    THEN LET l == w.dict[t].left
         IN Let([w EXCEPT !.dict[t].left = w.dict[l].right], LAMBDA w1 :
                [w |-> [w1 EXCEPT !.dict[l].right = t], t |-> l])
    ELSE [w |-> w, t |-> t]

\* A split that rotates but does not raise the level of the new root.
zz_dict_split_flat(w, t) ==
    IF t = NULL THEN [w |-> w, t |-> NULL]
    ELSE IF w.dict[t].right = NULL \/ w.dict[w.dict[t].right].right = NULL
    THEN [w |-> w, t |-> t]
    ELSE IF w.dict[t].level = w.dict[w.dict[w.dict[t].right].right].level
    THEN LET r == w.dict[t].right
         IN Let([w EXCEPT !.dict[t].right = w.dict[r].left], LAMBDA w1 :
                [w |-> [w1 EXCEPT !.dict[r].left = t], t |-> r])
    ELSE [w |-> w, t |-> t]

zz_dict_split(w, t) ==
    IF t = NULL THEN [w |-> w, t |-> NULL]
    ELSE IF w.dict[t].right = NULL \/ w.dict[w.dict[t].right].right = NULL
    THEN [w |-> w, t |-> t]
    ELSE IF w.dict[t].level = w.dict[w.dict[w.dict[t].right].right].level
    THEN LET r == w.dict[t].right
         IN Let([w EXCEPT !.dict[t].right = w.dict[r].left], LAMBDA w1 :
            Let([w1 EXCEPT !.dict[r].left = t], LAMBDA w2 :
                [w |-> [w2 EXCEPT !.dict[r].level = @ + 1], t |-> r]))
    ELSE [w |-> w, t |-> t]

\* zz_dict_insert(tree, t, data, &rval): the new root of the subtree and
\* the value stored through rval.  A node fresh from zz_alloc is zeroed:
\* its left and right are NULL.
RECURSIVE zz_dict_insert(_, _, _)
zz_dict_insert(w, t, data) ==
    IF t = NULL
    THEN Let(zz_alloc(w, SizeofDict + strlen(data) + 1), LAMBDA a :
             [w |-> [a.w EXCEPT !.dict = Put(@, a.ptr,
                        [left |-> NULL, right |-> NULL, level |-> 1, data |-> data])],
              t |-> a.ptr, rval |-> DataOf(a.ptr)])
    ELSE Let(strcmp(data, w.dict[t].data), LAMBDA cmp :
         Let(IF cmp < 0
             THEN Let(zz_dict_insert(w, w.dict[t].left, data), LAMBDA s :
                      [w |-> [s.w EXCEPT !.dict[t].left = s.t], rval |-> s.rval])
             ELSE IF cmp > 0
             THEN Let(zz_dict_insert(w, w.dict[t].right, data), LAMBDA s :
                      [w |-> [s.w EXCEPT !.dict[t].right = s.t], rval |-> s.rval])
             ELSE [w |-> w, rval |-> DataOf(t)], LAMBDA r :
         Let(zz_dict_skew(r.w, t), LAMBDA sk :
         Let(zz_dict_split(sk.w, sk.t), LAMBDA sp :
             [w |-> sp.w, t |-> sp.t, rval |-> r.rval]))))

\* zz_alloc_string(tree, str); the reference returned is recorded in rvals.
zz_alloc_string(w, str) ==
    Let(zz_dict_insert(w, w.tree.strings, str), LAMBDA r :
        [w |-> [r.w EXCEPT !.tree.strings = r.t,
                           !.rvals = @ \cup {[text |-> str, ref |-> r.rval]}],
         rval |-> r.rval])

\* The text stored at an interned reference.
TextAt(w, ref) == w.dict[ref - SizeofDict].data

(***************************************************************************)
(* Nodes.  A struct zz_list is a link [prev, next] of a circular doubly    *)
(* linked list; the address of a link is [n |-> node, f |-> field].        *)
(***************************************************************************)
SiblingsOf(n) == [n |-> n, f |-> "siblings"]
ChildrenOf(n) == [n |-> n, f |-> "children"]
NullLink == [n |-> NULL, f |-> ""]

\* *l for a link address l
Link(w, l) == w.node[l.n][l.f]

\* zz_list_init(l)
zz_list_init(w, l) == [w EXCEPT !.node[l.n][l.f] = [prev |-> l, next |-> l]]

\* zz_append_child(pt, ch): link ch->siblings in before the anchor
\* pt->children, i.e. at the end of pt's child list.
zz_append_child(w, pt, ch) ==
    LET head == ChildrenOf(pt)
        item == SiblingsOf(ch)
        last == Link(w, head).prev
    IN Let([w EXCEPT !.node[ch].siblings = [prev |-> last, next |-> head]], LAMBDA w1 :
       Let([w1 EXCEPT !.node[last.n][last.f].next = item], LAMBDA w2 :
           [w2 EXCEPT !.node[pt].children.prev = item]))

\* zz_foreach_child(iter, n): the nodes met from link l to the anchor of n.
RECURSIVE ChildrenFrom(_, _, _)
ChildrenFrom(nd, n, l) ==
    IF l = ChildrenOf(n) THEN <<>>
    ELSE <<l.n>> \o ChildrenFrom(nd, n, nd[l.n][l.f].next)

ChildrenIn(nd, n) == ChildrenFrom(nd, n, nd[n].children.next)

\* memory fresh from zz_alloc, seen as a struct zz_node
ZeroNode == [token |-> NULL, type |-> 0, data |-> 0,
             siblings |-> [prev |-> NullLink, next |-> NullLink],
             children |-> [prev |-> NullLink, next |-> NullLink]]

zz_alloc_node(w) ==
    Let(zz_alloc(w, w.tree.node_size), LAMBDA a :
    Let([a.w EXCEPT !.node = Put(@, a.ptr, ZeroNode)], LAMBDA w1 :
    Let(zz_list_init(w1, SiblingsOf(a.ptr)), LAMBDA w2 :
        [w |-> zz_list_init(w2, ChildrenOf(a.ptr)), node |-> a.ptr])))

zz_null_init(w, n) == [w EXCEPT !.node[n].type = ZZ_NULL]
zz_int_init(w, n, val) == [w EXCEPT !.node[n].type = ZZ_INT, !.node[n].data = val]
zz_uint_init(w, n, val) == [w EXCEPT !.node[n].type = ZZ_UINT, !.node[n].data = val]
zz_double_init(w, n, val) == [w EXCEPT !.node[n].type = ZZ_DOUBLE, !.node[n].data = val]
zz_pointer_init(w, n, val) == [w EXCEPT !.node[n].type = ZZ_POINTER, !.node[n].data = val]
zz_string_init(w, n, val) ==
    Let([w EXCEPT !.node[n].type = ZZ_STRING], LAMBDA w1 :
    Let(zz_alloc_string(w1, val), LAMBDA s :
        [s.w EXCEPT !.node[n].data = s.rval]))

zz_null(w, token) ==
    Let(zz_alloc_node(w), LAMBDA a :
        [w |-> [a.w EXCEPT !.node[a.node].token = token,
                           !.node[a.node].type = ZZ_NULL],
         node |-> a.node])

zz_int(w, token, data) ==
    Let(zz_alloc_node(w), LAMBDA a :
    Let([a.w EXCEPT !.node[a.node].token = token], LAMBDA w1 :
        [w |-> zz_int_init(w1, a.node, data), node |-> a.node]))

zz_uint(w, token, data) ==
    Let(zz_alloc_node(w), LAMBDA a :
    Let([a.w EXCEPT !.node[a.node].token = token], LAMBDA w1 :
        [w |-> zz_uint_init(w1, a.node, data), node |-> a.node]))

zz_double(w, token, data) ==
    Let(zz_alloc_node(w), LAMBDA a :
    Let([a.w EXCEPT !.node[a.node].token = token], LAMBDA w1 :
        [w |-> zz_double_init(w1, a.node, data), node |-> a.node]))

zz_string(w, token, data) ==
    Let(zz_alloc_node(w), LAMBDA a :
    Let([a.w EXCEPT !.node[a.node].token = token], LAMBDA w1 :
        [w |-> zz_string_init(w1, a.node, data), node |-> a.node]))

zz_pointer(w, token, data) ==
    Let(zz_alloc_node(w), LAMBDA a :
    Let([a.w EXCEPT !.node[a.node].token = token], LAMBDA w1 :
        [w |-> zz_pointer_init(w1, a.node, data), node |-> a.node]))

\* A copy that takes an Int node for a UInt node.
zz_copy_int_as_uint(w, n) ==
    LET src == w.node[n]
    IN CASE src.type = ZZ_NULL -> zz_null(w, src.token)
         [] src.type = ZZ_INT -> zz_uint(w, src.token, src.data)
         [] src.type = ZZ_UINT -> zz_uint(w, src.token, src.data)
         [] src.type = ZZ_DOUBLE -> zz_double(w, src.token, src.data)
         [] src.type = ZZ_STRING -> zz_string(w, src.token, TextAt(w, src.data))
         [] src.type = ZZ_POINTER -> zz_pointer(w, src.token, src.data)
         [] OTHER -> [w |-> w, node |-> NULL]

\* zz_copy(tree, node).  zz_string is handed the pointer node->data.str_val,
\* i.e. the text stored there.
zz_copy(w, n) ==
    LET src == w.node[n]
    IN CASE src.type = ZZ_NULL -> zz_null(w, src.token)
         [] src.type = ZZ_INT -> zz_int(w, src.token, src.data)
         [] src.type = ZZ_UINT -> zz_uint(w, src.token, src.data)
         [] src.type = ZZ_DOUBLE -> zz_double(w, src.token, src.data)
         [] src.type = ZZ_STRING -> zz_string(w, src.token, TextAt(w, src.data))
         [] src.type = ZZ_POINTER -> zz_pointer(w, src.token, src.data)
         [] OTHER -> [w |-> w, node |-> NULL]

RECURSIVE zz_copy_recursive(_, _)
RECURSIVE CopyChildren(_, _, _, _)
RECURSIVE CopyChildrenShallow(_, _, _, _)

\* The loop of zz_copy_recursive: iter runs over the children of n from
\* link l on; each is copied recursively and appended to ret.
CopyChildren(w, n, l, r) ==
    IF l = ChildrenOf(n) THEN w
    ELSE Let(zz_copy_recursive(w, l.n), LAMBDA c :
         Let(zz_append_child(c.w, r, c.node), LAMBDA w1 :
             CopyChildren(w1, n, Link(w1, l).next, r)))

\* The same loop copying each child with zz_copy.
CopyChildrenShallow(w, n, l, r) ==
    IF l = ChildrenOf(n) THEN w
    ELSE Let(zz_copy(w, l.n), LAMBDA c :
         Let(zz_append_child(c.w, r, c.node), LAMBDA w1 :
             CopyChildrenShallow(w1, n, Link(w1, l).next, r)))

zz_copy_recursive_one_level(w, n) ==
    Let(zz_copy(w, n), LAMBDA c :
        IF c.node = NULL THEN c
        ELSE [w |-> CopyChildrenShallow(c.w, n, Link(c.w, ChildrenOf(n)).next, c.node),
              node |-> c.node])

zz_copy_recursive(w, n) ==
    Let(zz_copy(w, n), LAMBDA c :
        IF c.node = NULL THEN c
        ELSE [w |-> CopyChildren(c.w, n, Link(c.w, ChildrenOf(n)).next, c.node),
              node |-> c.node])

(***************************************************************************)
(* Initial state: the tree after zz_tree_init(tree, node_size).  The       *)
(* result of calloc(9, ..) is stored untested: the array of nine null      *)
(* chain heads, or NULL when calloc has no memory.                         *)
(***************************************************************************)
zz_tree_init(node_size) ==
    /\ node_size >= SizeofNode
    /\ status = "live"
    /\ oom \in BOOLEAN
    /\ tree = [node_size |-> node_size, strings |-> NULL]
    /\ table = [ptr |-> IF oom THEN NULL ELSE TableAddr,
                head |-> [i \in 0..(NumChains - 1) |-> 0], freed |-> 0]
    /\ blob = <<>>
    /\ dict = <<>>
    /\ node = <<>>
    /\ allocs = <<>>
    /\ rvals = {}
    /\ inits = 0
    /\ ret = [op |-> "zz_tree_init"]

Init == zz_tree_init(SizeofNode)

\* zz_tree_init with its memory request granted.
InitGranted == Init /\ oom = FALSE

\* Install a world as the next state.
Install(w) ==
    /\ status' = w.status
    /\ oom' = w.oom
    /\ tree' = w.tree
    /\ table' = w.table
    /\ blob' = w.blob
    /\ dict' = w.dict
    /\ node' = w.node
    /\ allocs' = w.allocs
    /\ rvals' = w.rvals

Commit(w) == Install(w) /\ inits' = inits

(***************************************************************************)
(* Allocator specification: zz_alloc on request sizes of every class,      *)
(* every memory request granted.                                           *)
(***************************************************************************)
AllocSizes == {0, 8, 9, 16, 32, 33, 64, 128, 256, 257, 512, 513, 1024, 1025}

AllocStep(nbytes) ==
    /\ status = "live"
    /\ BagSize(allocs) < MaxAllocs
    /\ \E r \in {zz_alloc(World, nbytes)} :
          /\ r.w.status = "live"
          /\ Commit(r.w)
          /\ ret' = [op |-> "zz_alloc", nbytes |-> nbytes, val |-> r.ptr]

Destroy ==
    /\ status = "live"
    /\ \E w \in {zz_tree_destroy(World)} :
          /\ w.status = "destroyed"
          /\ Commit(w)
    /\ ret' = [op |-> "zz_tree_destroy"]

NextAlloc ==
    \/ \E n \in AllocSizes : AllocStep(n)
    \/ Destroy

SpecAlloc == InitGranted /\ [][NextAlloc]_vars

(***************************************************************************)
(* Allocator specification with memory exhaustion: calloc may return NULL  *)
(* at any call, that of zz_tree_init included.  zz_alloc and               *)
(* zz_tree_destroy then load or store through the null pointer, which is   *)
(* undefined: the process is killed by the fault, or the access does not   *)
(* trap and the function returns.                                          *)
(***************************************************************************)
OomSizes == {8, 64, 512, 1024, 1025}

Exhaust ==
    /\ status = "live"
    /\ oom = FALSE
    /\ oom' = TRUE
    /\ UNCHANGED <<status, tree, table, blob, dict, node, allocs, rvals, inits, ret>>

Replenish ==
    /\ status = "live"
    /\ oom = TRUE
    /\ oom' = FALSE
    /\ UNCHANGED <<status, tree, table, blob, dict, node, allocs, rvals, inits, ret>>

AllocTrap(nbytes) ==
    /\ status = "live"
    /\ BagSize(allocs) < MaxAllocs
    /\ \E r \in {zz_alloc(World, nbytes)} : r.w.status = "fault"
    /\ status' = "crashed"
    /\ ret' = [op |-> "fault", nbytes |-> nbytes]
    /\ UNCHANGED <<oom, tree, table, blob, dict, node, allocs, rvals, inits>>

AllocNoTrap(nbytes) ==
    /\ status = "live"
    /\ BagSize(allocs) < MaxAllocs
    /\ \E r \in {zz_alloc(World, nbytes)} :
          /\ r.w.status = "fault"
          /\ Commit([r.w EXCEPT !.status = "live"])
          /\ ret' = [op |-> "zz_alloc", nbytes |-> nbytes, val |-> r.ptr]

DestroyTrap ==
    /\ status = "live"
    /\ \E w \in {zz_tree_destroy(World)} : w.status = "fault"
    /\ status' = "crashed"
    /\ ret' = [op |-> "fault"]
    /\ UNCHANGED <<oom, tree, table, blob, dict, node, allocs, rvals, inits>>

DestroyNoTrap ==
    /\ status = "live"
    /\ \E w \in {zz_tree_destroy(World)} :
          /\ w.status = "fault"
          /\ Commit([w EXCEPT !.status = "destroyed"])
    /\ ret' = [op |-> "zz_tree_destroy"]

NextOom ==
    \/ \E n \in OomSizes : AllocStep(n)
    \/ Exhaust
    \/ Replenish
    \/ \E n \in OomSizes : AllocTrap(n)
    \/ \E n \in OomSizes : AllocNoTrap(n)
    \/ Destroy
    \/ DestroyTrap
    \/ DestroyNoTrap

SpecOom == Init /\ [][NextOom]_vars

(***************************************************************************)
(* Dictionary specification: a first String node is made with zz_string,   *)
(* further texts are interned with zz_string_init on an existing node.     *)
(***************************************************************************)
\* "", "a", "aa", "ab", "abcdefg", "abcdefgh", "b", "ba" as bytes
Texts == { <<>>, <<97>>, <<97, 97>>, <<97, 98>>,
           <<97, 98, 99, 100, 101, 102, 103>>,
           <<97, 98, 99, 100, 101, 102, 103, 104>>,
           <<98>>, <<98, 97>> }

Interned == {r.text : r \in rvals}

\* room in the model for interning text
MayIntern(text) == text \in Interned \/ Cardinality(Interned) < MaxDict

StringFirst(text) ==
    /\ status = "live"
    /\ DOMAIN node = {}
    /\ MayIntern(text)
    /\ \E r \in {zz_string(World, "id", text)} :
          /\ Commit(r.w)
          /\ ret' = [op |-> "zz_string", text |-> text, val |-> r.node,
                     ref |-> r.w.node[r.node].data]

StringInit(n, text) ==
    /\ status = "live"
    /\ MayIntern(text)
    /\ \E w \in {zz_string_init(World, n, text)} :
          /\ Commit(w)
          /\ ret' = [op |-> "zz_string_init", text |-> text, val |-> n,
                     ref |-> w.node[n].data]

NextDict ==
    \/ \E t \in Texts : StringFirst(t)
    \/ \E n \in DOMAIN node, t \in Texts : StringInit(n, t)

SpecDict == InitGranted /\ [][NextDict]_vars

(***************************************************************************)
(* Copy specification: the client makes nodes of the six kinds, links them *)
(* into trees and gives existing nodes another kind with the zz_*_init     *)
(* functions, then copies one node with zz_copy or one subtree with        *)
(* zz_copy_recursive.                                                      *)
(***************************************************************************)
NodeInputs ==
    { [token |-> "block", type |-> ZZ_NULL, val |-> 0],
      [token |-> "n", type |-> ZZ_INT, val |-> 1],
      [token |-> "n", type |-> ZZ_INT, val |-> -2],
      [token |-> "u", type |-> ZZ_UINT, val |-> 3],
      [token |-> "d", type |-> ZZ_DOUBLE, val |-> 25],
      [token |-> "id", type |-> ZZ_STRING, val |-> <<102, 111, 111>>],
      [token |-> "p", type |-> ZZ_POINTER, val |-> 7777] }

Construct(w, in) ==
    CASE in.type = ZZ_NULL -> zz_null(w, in.token)
      [] in.type = ZZ_INT -> zz_int(w, in.token, in.val)
      [] in.type = ZZ_UINT -> zz_uint(w, in.token, in.val)
      [] in.type = ZZ_DOUBLE -> zz_double(w, in.token, in.val)
      [] in.type = ZZ_STRING -> zz_string(w, in.token, in.val)
      [] in.type = ZZ_POINTER -> zz_pointer(w, in.token, in.val)

\* The node whose child list the sibling ring of n is anchored in, NULL
\* when n is in no child list.
RECURSIVE AnchorFrom(_, _, _)
AnchorFrom(nd, start, l) ==
    IF l.f = "children" THEN l.n
    ELSE IF l = start THEN NULL
    ELSE AnchorFrom(nd, start, nd[l.n][l.f].next)

ParentIn(nd, n) == AnchorFrom(nd, SiblingsOf(n), nd[n].siblings.next)

\* The nodes of the subtree rooted at n.
RECURSIVE SubtreeIn(_, _)
SubtreeIn(nd, n) ==
    LET kids == ChildrenIn(nd, n)
    IN {n} \cup UNION {SubtreeIn(nd, kids[i]) : i \in 1..Len(kids)}

\* The client is still building: it has not copied yet.
Building == ret.op \notin {"zz_copy", "zz_copy_recursive"}

Make(in) ==
    /\ status = "live"
    /\ Building
    /\ Cardinality(DOMAIN node) < MaxMade
    /\ \E r \in {Construct(World, in)} :
          /\ Commit(r.w)
          /\ ret' = [op |-> "make", src |-> NULL, val |-> r.node]

\* zz_null_init .. zz_pointer_init called on the existing node n.
InitAs(w, n, in) ==
    CASE in.type = ZZ_NULL -> zz_null_init(w, n)
      [] in.type = ZZ_INT -> zz_int_init(w, n, in.val)
      [] in.type = ZZ_UINT -> zz_uint_init(w, n, in.val)
      [] in.type = ZZ_DOUBLE -> zz_double_init(w, n, in.val)
      [] in.type = ZZ_STRING -> zz_string_init(w, n, in.val)
      [] in.type = ZZ_POINTER -> zz_pointer_init(w, n, in.val)

Reinit(n, in) ==
    /\ status = "live"
    /\ Building
    /\ inits < MaxInits
    /\ \E w \in {InitAs(World, n, in)} : Install(w)
    /\ inits' = inits + 1
    /\ ret' = [op |-> "init", src |-> n, val |-> n]

\* zz_append_child(pt, ch) for a node ch that is in no child list.  Trees
\* are built bottom-up, as a parser does: ch was made before pt.
AppendChild(pt, ch) ==
    /\ status = "live"
    /\ Building
    /\ ch < pt
    /\ ParentIn(node, ch) = NULL
    /\ \E w \in {zz_append_child(World, pt, ch)} : Commit(w)
    /\ ret' = [op |-> "zz_append_child", src |-> pt, val |-> ch]

Copy(n) ==
    /\ status = "live"
    /\ Building
    /\ Cardinality(DOMAIN node) < MaxNodes
    /\ \E r \in {zz_copy(World, n)} :
          /\ Commit(r.w)
          /\ ret' = [op |-> "zz_copy", src |-> n, val |-> r.node]

CopyRecursive(n) ==
    /\ status = "live"
    /\ Building
    /\ Cardinality(DOMAIN node) + Cardinality(SubtreeIn(node, n)) <= MaxNodes
    /\ \E r \in {zz_copy_recursive(World, n)} :
          /\ Commit(r.w)
          /\ ret' = [op |-> "zz_copy_recursive", src |-> n, val |-> r.node]

NextCopy ==
    \/ \E in \in NodeInputs : Make(in)
    \/ \E pt \in DOMAIN node, ch \in DOMAIN node : AppendChild(pt, ch)
    \/ \E n \in DOMAIN node, in \in NodeInputs : Reinit(n, in)
    \/ \E n \in DOMAIN node : Copy(n)
    \/ \E n \in DOMAIN node : CopyRecursive(n)

SpecCopy == InitGranted /\ [][NextCopy]_vars

(***************************************************************************)
(* Properties of the allocator.                                            *)
(***************************************************************************)
Classes == {8, 16, 32, 64, 128, 256, 512, 1024}

\* The index of the chain of class c: 8 * 2^i = c.
RECURSIVE ClassIndex(_)
ClassIndex(c) == IF c <= 8 THEN 0 ELSE 1 + ClassIndex(c \div 2)

\* The class size of chain i.
RECURSIVE ClassOfChain(_)
ClassOfChain(i) == IF i = 0 THEN 8 ELSE 2 * ClassOfChain(i - 1)

SmallestClass(n) ==
    CHOOSE c \in Classes : c >= n /\ \A d \in Classes : d >= n => c <= d

\* The blobs on the chain that starts at blob b, newest first.
RECURSIVE ChainFrom(_, _)
ChainFrom(bl, b) == IF b = 0 THEN <<>> ELSE <<b>> \o ChainFrom(bl, bl[b].next)

Chain(i) == ChainFrom(blob, table.head[i])
OnChain(i) == {Chain(i)[k] : k \in 1..Len(Chain(i))}
FixedChains == 0..(NumChains - 2)
OverflowChain == NumChains - 1

\* C7: every blob on the eight fixed-class chains has used <= ZZ_BLOB_SIZE,
\* the payload it was allocated with, and every pointer zz_alloc carved from
\* such a blob, plus the class size of the chain, lies inside that payload.
C7_UsedWithinCapacity ==
    \A i \in FixedChains : \A b \in OnChain(i) :
        /\ blob[b].size = ZZ_BLOB_SIZE
        /\ blob[b].used <= ZZ_BLOB_SIZE
        /\ \A a \in DOMAIN allocs :
              BlobOf(a.ptr) = b =>
                 /\ a.ptr >= Payload(b)
                 /\ a.ptr + ClassOfChain(i) <= Payload(b) + ZZ_BLOB_SIZE

\* a blob of the 512-byte class was filled to the last byte, a newer blob was
\* prepended to it, and the 1024-byte class was served as well
C7_Witness ==
    /\ Len(Chain(6)) = 2
    /\ blob[Chain(6)[2]].used = ZZ_BLOB_SIZE
    /\ Len(Chain(7)) >= 1
    /\ blob[Chain(7)[1]].used = ZZ_BLOB_SIZE

\* C8: while the tree is live no blob and no chain table has been released
\* and every blob obtained is on exactly one of the nine chains; after
\* zz_tree_destroy every blob obtained, and the chain table, has been
\* released exactly once.
C8_ReleasedOnlyAtDestroy ==
    /\ status = "live" =>
          /\ table.freed = 0
          /\ \A b \in 1..Len(blob) :
                /\ blob[b].freed = 0
                /\ Cardinality({i \in 0..(NumChains - 1) : b \in OnChain(i)}) = 1
    /\ status = "destroyed" =>
          /\ table.freed = 1
          /\ \A b \in 1..Len(blob) : blob[b].freed = 1

\* the tree was destroyed with a full blob and its successor on one chain
\* and a blob on the overflow chain
C8_Witness ==
    /\ status = "destroyed"
    /\ \E i \in FixedChains : Len(Chain(i)) >= 2
    /\ Len(Chain(OverflowChain)) >= 1

\* C9: a step of zz_alloc(nbytes) with nbytes <= 1024 changes only the chain
\* of the smallest class >= nbytes: it advances that chain's active blob, or
\* a blob newly prepended to it, by the class size and returns the address
\* at the old offset; with nbytes > 1024 it prepends a new blob of nbytes
\* bytes, used = nbytes, to the overflow chain.  No other blob and no other
\* chain changes, so an overflow blob never serves a later request.
C9_Step ==
    LET n == ret'.nbytes
        i == IF n <= 1024 THEN ClassIndex(SmallestClass(n)) ELSE OverflowChain
        h == table'.head[i]
        new == Len(blob) + 1
    IN /\ \A j \in 0..(NumChains - 1) : j # i => table'.head[j] = table.head[j]
       /\ \A b \in 1..Len(blob) : b # h => blob'[b] = blob[b]
       /\ Len(blob') <= new
       /\ IF n <= 1024
          THEN \/ /\ h = table.head[i]
                  /\ h # 0
                  /\ Len(blob') = Len(blob)
                  /\ blob'[h] = [blob[h] EXCEPT !.used = @ + SmallestClass(n)]
                  /\ ret'.val = Payload(h) + blob[h].used
               \/ /\ h = new
                  /\ Len(blob') = new
                  /\ blob'[h] = [next |-> table.head[i], used |-> SmallestClass(n),
                                 size |-> ZZ_BLOB_SIZE, freed |-> 0]
                  /\ ret'.val = Payload(h)
          ELSE /\ h = new
               /\ Len(blob') = new
               /\ blob'[h] = [next |-> table.head[i], used |-> n, size |-> n,
                              freed |-> 0]
               /\ ret'.val = Payload(h)

\* C9: every step of zz_alloc serves the request from the chain of the
\* smallest class >= nbytes, or from a new blob of the overflow chain, as
\* C9_Step says.
C9_ClassChosen == [][ret'.op = "zz_alloc" /\ ret' # ret => C9_Step]_vars

\* of two requests of 64 bytes the second was served from the blob the first
\* left active, and requests of 1025 bytes each got a blob of their own
C9_Witness ==
    /\ Len(Chain(3)) = 1
    /\ blob[Chain(3)[1]].used = 128
    /\ Len(Chain(OverflowChain)) = 2
    /\ ret.op = "zz_alloc"
    /\ ret.nbytes = 1025

\* C10: the byte ranges [ptr, ptr + nbytes) of any two allocations are
\* disjoint: no range of one byte or more was returned twice, and two
\* different ranges do not overlap.
C10_Disjoint ==
    /\ \A a \in DOMAIN allocs : a.nbytes > 0 => allocs[a] = 1
    /\ \A a, b \in DOMAIN allocs :
          a # b => \/ a.ptr + a.nbytes <= b.ptr
                   \/ b.ptr + b.nbytes <= a.ptr

\* two requests that fill their class size lie next to each other in one
\* blob, and a third one went to another chain
C10_Witness ==
    \E a, b, c \in DOMAIN allocs :
        /\ a.nbytes = 128
        /\ b.nbytes = 128
        /\ b.ptr = a.ptr + 128
        /\ c.nbytes = 1025

\* Usable memory: nbytes bytes inside the payload of a blob calloc returned.
Usable(p, nbytes) ==
    /\ p # NULL
    /\ BlobOf(p) \in 1..Len(blob)
    /\ p >= Payload(BlobOf(p))
    /\ p + nbytes <= Payload(BlobOf(p)) + blob[BlobOf(p)].size

\* C6: whenever zz_alloc has returned, it has returned a non-null pointer to
\* usable memory; when the memory request fails the process is terminated
\* instead.
C6_SucceedsOrAborts ==
    ret.op = "zz_alloc" => status = "crashed" \/ Usable(ret.val, ret.nbytes)

(***************************************************************************)
(* Properties of the dictionary.                                           *)
(***************************************************************************)
\* The in-order traversal of the dictionary below t.
RECURSIVE InOrder(_, _)
InOrder(d, t) ==
    IF t = NULL THEN <<>>
    ELSE InOrder(d, d[t].left) \o <<d[t].data>> \o InOrder(d, d[t].right)

\* C1: interning a text again returns the reference its first interning
\* returned, two different texts get different references, and a String
\* node holds the reference that interning its text returns.
C1_InternIdentity ==
    /\ \A p, q \in rvals : (p.text = q.text) <=> (p.ref = q.ref)
    /\ \A r \in rvals : TextAt(World, r.ref) = r.text
    /\ \A n \in DOMAIN node :
          node[n].type = ZZ_STRING =>
             [text |-> TextAt(World, node[n].data), ref |-> node[n].data] \in rvals

\* the dictionary holds MaxDict texts and the last call interned one of
\* them again: a dictionary node allocated after that text's node exists
C1_Witness ==
    /\ ret.op = "zz_string_init"
    /\ Cardinality(rvals) = MaxDict
    /\ \E d \in DOMAIN dict : d > ret.ref /\ BlobOf(d) = BlobOf(ret.ref)
    /\ \E d \in DOMAIN dict : BlobOf(d) # BlobOf(ret.ref)

\* C2: the in-order traversal of the dictionary yields exactly the texts
\* interned so far, each once, in strictly ascending strcmp order.
C2_InOrderSorted ==
    LET s == InOrder(dict, tree.strings)
    IN /\ {s[k] : k \in 1..Len(s)} = Interned
       /\ Len(s) = Cardinality(Interned)
       /\ Len(s) = Cardinality(DOMAIN dict)
       /\ \A k \in 1..(Len(s) - 1) : strcmp(s[k], s[k + 1]) < 0

\* MaxDict texts are in the dictionary and its root is not the node
\* allocated first in its blob: rotations have replaced the root
C2_Witness ==
    /\ Cardinality(Interned) = MaxDict
    /\ Len(InOrder(dict, tree.strings)) = MaxDict
    /\ \E d \in DOMAIN dict : d < tree.strings /\ BlobOf(d) = BlobOf(tree.strings)

\* C3: at every node of the dictionary the left child is exactly one level
\* below the node, and the right child of the right child is below the
\* node's level.
C3_Balanced ==
    \A t \in DOMAIN dict :
        /\ dict[t].left # NULL => dict[dict[t].left].level = dict[t].level - 1
        /\ (dict[t].right # NULL /\ dict[dict[t].right].right # NULL)
              => dict[dict[dict[t].right].right].level < dict[t].level

\* the dictionary has grown to three levels: splits have raised two levels
\* above the leaves
C3_Witness ==
    /\ tree.strings # NULL
    /\ dict[tree.strings].level = 3
    /\ dict[tree.strings].left # NULL
    /\ dict[tree.strings].right # NULL

(***************************************************************************)
(* Properties of the copies.                                               *)
(***************************************************************************)
\* The payload of a node: what its kind makes of node->data.
PayloadOf(n) == IF n.type = ZZ_NULL THEN 0 ELSE n.data

\* The subtree below n as a value: token, kind, payload and the shapes of
\* the children in list order.
RECURSIVE ShapeIn(_, _)
ShapeIn(nd, n) ==
    LET kids == ChildrenIn(nd, n)
    IN [token |-> nd[n].token, type |-> nd[n].type, payload |-> PayloadOf(nd[n]),
        kids |-> [k \in 1..Len(kids) |-> ShapeIn(nd, kids[k])]]

\* the nodes the two links of node n point to
LinkedFrom(nd, n) ==
    {nd[n].siblings.prev.n, nd[n].siblings.next.n,
     nd[n].children.prev.n, nd[n].children.next.n}

\* C4: a step of zz_copy_recursive(n) returns the root of a subtree of new
\* nodes with the shape, tokens, kinds, payloads and child order of the
\* subtree of n; the result is in no child list, its nodes link to each
\* other only, and no node that existed before is changed.
C4_Step ==
    LET src == ret'.src
        r == ret'.val
        copy == SubtreeIn(node', r)
    IN /\ r # NULL
       /\ ShapeIn(node', r) = ShapeIn(node, src)
       /\ copy \cap DOMAIN node = {}
       /\ Cardinality(copy) = Cardinality(SubtreeIn(node, src))
       /\ DOMAIN node' = DOMAIN node \cup copy
       /\ ParentIn(node', r) = NULL
       /\ \A m \in copy : LinkedFrom(node', m) \subseteq copy
       /\ \A m \in DOMAIN node : node'[m] = node[m]

\* C4: every step of zz_copy_recursive returns a new subtree isomorphic to
\* the source and leaves the source unchanged, as C4_Step says.
C4_CopyRecursive ==
    [][ret'.op = "zz_copy_recursive" /\ ret' # ret => C4_Step]_vars

\* a subtree of three nodes with a grandchild was copied
C4_Witness ==
    /\ ret.op = "zz_copy_recursive"
    /\ \E c \in DOMAIN node :
          /\ ParentIn(node, c) # NULL
          /\ ParentIn(node, ParentIn(node, c)) = ret.src
    /\ Cardinality(SubtreeIn(node, ret.val)) = 3

\* C5: a step of zz_copy(n) returns a new node with no children and a
\* self-anchored sibling link, with the token, kind and payload of n (for a
\* String node the same reference); no node that existed before is changed.
C5_Step ==
    LET src == ret'.src
        c == ret'.val
    IN /\ c # NULL
       /\ c \notin DOMAIN node
       /\ DOMAIN node' = DOMAIN node \cup {c}
       /\ node'[c].children = [prev |-> ChildrenOf(c), next |-> ChildrenOf(c)]
       /\ node'[c].siblings = [prev |-> SiblingsOf(c), next |-> SiblingsOf(c)]
       /\ node'[c].token = node[src].token
       /\ node'[c].type = node[src].type
       /\ PayloadOf(node'[c]) = PayloadOf(node[src])
       /\ \A m \in DOMAIN node : node'[m] = node[m]

\* C5: every step of zz_copy returns a new childless, unattached node with
\* the token, kind and payload of the source and leaves the source
\* unchanged, as C5_Step says.
C5_CopyShallow == [][ret'.op = "zz_copy" /\ ret' # ret => C5_Step]_vars

\* a String node that has a child and is itself a child was copied
C5_Witness ==
    /\ ret.op = "zz_copy"
    /\ node[ret.src].type = ZZ_STRING
    /\ Len(ChildrenIn(node, ret.src)) >= 1
    /\ ParentIn(node, ret.src) # NULL
====
